---- MODULE Spec2Model ----
(***************************************************************************)
(* Model of the AI-Lead-Automator core: the durable lead store             *)
(* (src/services/data_manager.py), the lead analysis orchestrator          *)
(* (src/services/lead_analyzer.py) and the knowledge base service          *)
(* (src/services/knowledge_base.py).                                       *)
(***************************************************************************)
EXTENDS Integers, Sequences, FiniteSets, TLC

(***************************************************************************)
(* Bounds of the model.                                                    *)
(***************************************************************************)
MaxOps == 3
MaxFaults == 1

(***************************************************************************)
(* Program constants.                                                      *)
(***************************************************************************)
MAX_NAME_LENGTH == 200
MAX_INDUSTRY_LENGTH == 100
MIN_SCORE == 0
MAX_SCORE == 100

Procs == {1, 2}

VARIABLES
    fc_key,      \* AppConfig.has_valid_firecrawl_key()
    ai_key,      \* AppConfig.has_valid_ai_key()
    dataFile,    \* content of data_file: [complete, leads]
    tmpFile,     \* content of data_file.with_suffix('.tmp'): [exists, complete, leads]
    mtime,       \* st_mtime of data_file, as a version counter
    cache,       \* per caller (session): st.session_state[cache_key], [cache_key + "_mtime"]
    active,      \* the callers that exist in this run
    pc,          \* position of each caller inside its store operation
    loc,         \* locals of each caller's store operation
    sv,          \* history: file content before the save in progress, and the collection saved
    nops,        \* store operations started so far
    faults,      \* injected failures so far
    returned,    \* history: ids returned by add_lead, in order
    hist,        \* history: operations completed by concurrent callers, in order of return
    kb_on,       \* LeadAnalyzer.knowledge_base is set
    ai_provider, \* AppConfig.ai_provider
    an,          \* the analysis of one URL in progress (analyze_and_save)
    bulk,        \* the batch in progress (analyze_bulk_urls)
    before,      \* history: the store as it was when the analysis was called
    kbcat,       \* content of documents_metadata.json: [complete, docs]
    kbvec,       \* vector index: the entries <<doc_id, chunk_index>>
    kbfiles,     \* document ids that have a stored file copy
    kbdoc,       \* document ids generated so far (uuid4)
    kb,          \* the knowledge base operation each caller is in
    mo,          \* the model object (Lead or Document) being built and converted
    sc,          \* the call of FirecrawlClient.scrape_url in progress
    km           \* the encryption key file and the KeyManager instances

storeVars == <<fc_key, ai_key, dataFile, tmpFile, mtime, cache, active, pc, loc, sv,
               nops, faults, returned, hist>>
anVars == <<kb_on, ai_provider, an, bulk, before>>
kbVars == <<kbcat, kbvec, kbfiles, kbdoc, kb>>
pureVars == <<mo, sc, km>>
vars == <<storeVars, anVars, kbVars, pureVars>>

(***************************************************************************)
(* Strings are sequences of one-character strings.                         *)
(***************************************************************************)
RECURSIVE html_escape(_)
html_escape(s) ==
    IF s = <<>> THEN <<>>
    ELSE IF Len(s) = 1
    THEN LET c == s[1]
         IN  IF c = "&" THEN <<"&", "a", "m", "p", ";">>
             ELSE IF c = "<" THEN <<"&", "l", "t", ";">>
             ELSE <<c>>
    ELSE LET h == Len(s) \div 2
         IN  html_escape(SubSeq(s, 1, h)) \o html_escape(SubSeq(s, h + 1, Len(s)))

sanitize_text(text, max_length) ==
    IF text = <<>> THEN <<>>
    ELSE LET t == html_escape(text)
         IN  IF Len(t) > max_length THEN SubSeq(t, 1, max_length) ELSE t

validate_score_any(score) == TRUE
validate_score(score) == MIN_SCORE <= score /\ score <= MAX_SCORE

(***************************************************************************)
(* Lead records.  id 0 stands for None.                                    *)
(***************************************************************************)
\* The defaults of the dataclass: industry "Unknown", recommended_action
\* "Further Research".
Unknown == <<"U">>
ValidActions == {"Qualified", "Disqualified", "Further Research"}

NewLead(url, name, score) ==
    [id |-> 0, url |-> url, company_name |-> name, lead_score |-> score,
     industry |-> Unknown, recommended_action |-> "Further Research"]

\* Lead.__post_init__: the score is validated, company name and industry are
\* sanitized, an unknown recommended_action becomes "Further Research".
PostInitOk(d) == validate_score(d.lead_score)
PostInit(d) ==
    [d EXCEPT !.company_name = sanitize_text(d.company_name, MAX_NAME_LENGTH),
              !.industry = sanitize_text(d.industry, MAX_INDUSTRY_LENGTH),
              !.recommended_action = IF d.recommended_action \in ValidActions
                                     THEN d.recommended_action ELSE "Further Research"]

from_dict(d) == PostInit(d)
to_dict(l) == l

TestLead(i, score) ==
    [id |-> 9000 + i, url |-> "demo", company_name |-> <<"x">>, lead_score |-> score,
     industry |-> <<"S">>,
     recommended_action |-> IF score >= 70 THEN "Qualified" ELSE "Further Research"]

_get_test_leads ==
    << TestLead(1, 85), TestLead(2, 72), TestLead(3, 91), TestLead(4, 68), TestLead(5, 79) >>

MapSeq(f(_), s) == [i \in 1..Len(s) |-> f(s[i])]

\* DataManager._is_test_mode, lines 179-187
test_mode == ~fc_key \/ ~ai_key

\* The list load_all builds when it reads the file itself (lines 226-264).
\* readable = FALSE: open or json.load raised.
LoadedFrom(file, readable, tm) ==
    IF ~readable \/ ~file.complete \/ (\E i \in 1..Len(file.leads) : ~PostInitOk(file.leads[i]))
    THEN (IF tm THEN _get_test_leads ELSE <<>>)
    ELSE IF Len(file.leads) = 0 /\ tm THEN _get_test_leads
    ELSE MapSeq(from_dict, file.leads)

\* Whether that read ends on the path that stores the list in the cache.
LoadCaches(file, readable) ==
    readable /\ file.complete /\ (\A i \in 1..Len(file.leads) : PostInitOk(file.leads[i]))

(***************************************************************************)
(* URLs: InputValidator.validate_url.  A URL text is a sequence of pieces, *)
(* each standing for a run of characters: a scheme, a host, a port, a path *)
(* or query, or whitespace.                                                *)
(***************************************************************************)
Blank == " "
SchemePieces == {"http://", "https://", "HTTP://", "ftp://"}
HostPieces == {"example.com", "localhost", "LOCALHOST", "127.0.0.1", "0.0.0.0", "exa mple"}
PortPieces == {":8000"}
PathPieces == {"/p", "/script", "/<script", "/<iframe", "?u=javascript:"}

\* str.strip()
RECURSIVE lstrip(_)
lstrip(s) == IF s # <<>> /\ Head(s) = Blank THEN lstrip(Tail(s)) ELSE s
RECURSIVE rstrip(_)
rstrip(s) ==
    IF s # <<>> /\ s[Len(s)] = Blank THEN rstrip(SubSeq(s, 1, Len(s) - 1)) ELSE s
strip(s) == rstrip(lstrip(s))

\* url.startswith(('http://', 'https://')), case-sensitive
HasScheme(s) == s # <<>> /\ Head(s) \in {"http://", "https://"}

\* URL_PATTERN (lines 25-32, re.IGNORECASE): scheme, then a dotted domain,
\* localhost or a dotted quad, an optional port, an optional path or query
\* without whitespace.
URL_PATTERN(s) ==
    /\ Len(s) >= 2
    /\ s[1] \in {"http://", "https://", "HTTP://"}
    /\ s[2] \in {"example.com", "localhost", "LOCALHOST", "127.0.0.1", "0.0.0.0"}
    /\ LET from == IF Len(s) >= 3 /\ s[3] \in PortPieces THEN 4 ELSE 3
       IN  \A i \in from..Len(s) : s[i] \in PathPieces

\* DANGEROUS_PATTERNS (lines 39-44) searched in the whole URL
DANGEROUS_PATTERNS(s) ==
    \E i \in 1..Len(s) : s[i] \in {"/<script", "/<iframe", "?u=javascript:"}

\* urlparse(url).hostname.lower()
hostname(s) == IF s[2] = "LOCALHOST" THEN "localhost" ELSE s[2]
blocked_hosts == {"localhost", "127.0.0.1", "0.0.0.0"}

\* validate_url (lines 47-98): [valid, url], url the cleaned URL.
validate_unblocked(given) ==
    LET t == strip(given)
        u == IF HasScheme(t) THEN t ELSE <<"https://">> \o t
    IN  IF given = <<>> THEN [valid |-> FALSE, url |-> <<>>]
        ELSE IF ~URL_PATTERN(u) THEN [valid |-> FALSE, url |-> <<>>]
        ELSE IF DANGEROUS_PATTERNS(u) THEN [valid |-> FALSE, url |-> <<>>]
        ELSE [valid |-> TRUE, url |-> u]
validate_url(given) ==
    LET t == strip(given)
        u == IF HasScheme(t) THEN t ELSE <<"https://">> \o t
    IN  IF given = <<>> THEN [valid |-> FALSE, url |-> <<>>]
        ELSE IF ~URL_PATTERN(u) THEN [valid |-> FALSE, url |-> <<>>]
        ELSE IF DANGEROUS_PATTERNS(u) THEN [valid |-> FALSE, url |-> <<>>]
        ELSE IF hostname(u) \in blocked_hosts THEN [valid |-> FALSE, url |-> <<>>]
        ELSE [valid |-> TRUE, url |-> u]

\* given: the argument; url: the cleaned URL; called: the URL sent to the
\* Firecrawl API; mocked: the URL mock content was generated for.
NoScrape == [pc |-> "idle", given |-> <<>>, url |-> <<>>, success |-> FALSE,
             called |-> <<>>, mocked |-> <<>>]

(***************************************************************************)
(* Key management: src/security/encryption.py.  Keys are numbered in the   *)
(* order Fernet.generate_key() produced them; 0 stands for no key.         *)
(***************************************************************************)
\* file: the key file, absent, empty (touched, not yet written) or holding
\* a key; gen: keys generated so far; inst: the KeyManager instances.
NoKeys == [file |-> [state |-> "none", key |-> 0], gen |-> 0, inst |-> <<>>]

\* KeyManager.__init__ (lines 26-28): the path is kept, _cipher is None.
NewKeyManager == [pc |-> "new", key |-> 0, cipher |-> 0, raised |-> FALSE]

(***************************************************************************)
(* Documents: src/models/document.py.                                      *)
(***************************************************************************)
NewDocument(id, filename, content, doc_type, num_chunks) ==
    [id |-> id, filename |-> filename, content |-> content, doc_type |-> doc_type,
     num_chunks |-> num_chunks]

\* Document.__post_init__: an empty filename raises; empty content and an
\* unknown type are logged; no field is changed.
DocPostInitOk(d) == d.filename # <<>>
DocPostInit(d) == d

\* Document.to_dict is asdict, Document.from_dict is cls(**data).
doc_to_dict(d) == d
doc_from_dict(d) == DocPostInit(d)

(***************************************************************************)
(* Model objects built and converted on their own.                         *)
(***************************************************************************)
LongText == [i \in 1..(MAX_NAME_LENGTH + 1) |-> "x"]
Texts == { <<>>, <<"x">>, <<"&">>, <<"<", "b">>, LongText }
Scores == {MIN_SCORE - 1, MIN_SCORE, 50, MAX_SCORE, MAX_SCORE + 1}
Actions == ValidActions \cup {"Call now"}

\* kind: what was asked for; via: the constructor used; raised: it raised
\* ValueError; input: the arguments; value: the object built; back: the
\* object from_dict makes of value's to_dict.
NoObject == [kind |-> "none", via |-> "", pc |-> "idle", raised |-> FALSE,
             input |-> <<>>, value |-> <<>>, back |-> <<>>]

Built(kind, via, input, ok, value) ==
    [kind |-> kind, via |-> via, pc |-> "built", raised |-> ~ok, input |-> input,
     value |-> IF ok THEN value ELSE <<>>, back |-> <<>>]

(***************************************************************************)
(* Lead store: files, the session cache and the callers.                   *)
(***************************************************************************)
NoFile == [exists |-> FALSE, complete |-> FALSE, leads |-> <<>>]
NoCache == [has |-> FALSE, leads |-> <<>>, mtime |-> 0]
NoLeadArg == NewLead("", <<>>, 0)
\* leads: the list the operation works on; aliased: that list is the very
\* object held in the caller's cache; loaded: what load_all returned.
\* stored (history): the data file's collection when the operation was called.
IdleLoc == [op |-> "none", lead |-> NoLeadArg, lead_id |-> 0, leads |-> <<>>,
            aliased |-> FALSE, loaded |-> <<>>, found |-> FALSE, saved |-> FALSE,
            stored |-> <<>>]
NoSave == [on |-> FALSE, prev |-> <<>>, new |-> <<>>]

Names == { <<"x">>, <<"&">> }
IdChoices == {1, 2, 9001}

\* Failures are injected while the budget lasts; a batch longer than
\* MaxBatch runs without injected failures.
MaxBatch == 3
MayFail == faults < MaxFaults /\ Len(bulk.urls) <= MaxBatch

StoreInit(callers) ==
    /\ dataFile = [complete |-> TRUE, leads |-> <<>>]
    /\ tmpFile = NoFile
    /\ mtime = 1
    /\ cache = [p \in Procs |-> NoCache]
    /\ active = callers
    /\ pc = [p \in Procs |-> "idle"]
    /\ loc = [p \in Procs |-> IdleLoc]
    /\ sv = [p \in Procs |-> NoSave]
    /\ nops = 0
    /\ faults = 0
    /\ returned = <<>>
    /\ hist = <<>>

(***************************************************************************)
(* Entry into add_lead, update_lead, delete_lead.  The Lead handed in was  *)
(* built by its constructor.                                               *)
(***************************************************************************)
CallAdd(p) ==
    /\ p \in active /\ pc[p] = "idle" /\ nops < MaxOps
    /\ \E name \in Names :
         loc' = [loc EXCEPT ![p] = [IdleLoc EXCEPT !.op = "add",
                                      !.lead = PostInit(NewLead(ToString(nops + 1), name, 70)),
                                      !.stored = dataFile.leads]]
    /\ pc' = [pc EXCEPT ![p] = "load"]
    /\ nops' = nops + 1
    /\ UNCHANGED <<fc_key, ai_key, dataFile, tmpFile, mtime, cache, active, sv,
                   faults, returned, hist>>

\* update_lead lines 350-352: a lead without id is refused before any load.
CallUpdate(p) ==
    /\ p \in active /\ pc[p] = "idle" /\ nops < MaxOps
    /\ \E id \in IdChoices \cup {0}, name \in Names :
         /\ loc' = [loc EXCEPT ![p] = [IdleLoc EXCEPT !.op = "update",
                        !.lead = [PostInit(NewLead(ToString(nops + 1), name, 70))
                                  EXCEPT !.id = id],
                        !.lead_id = id, !.stored = dataFile.leads]]
         /\ pc' = [pc EXCEPT ![p] = IF id = 0 THEN "ret" ELSE "load"]
    /\ nops' = nops + 1
    /\ UNCHANGED <<fc_key, ai_key, dataFile, tmpFile, mtime, cache, active, sv,
                   faults, returned, hist>>

CallDelete(p) ==
    /\ p \in active /\ pc[p] = "idle" /\ nops < MaxOps
    /\ \E id \in IdChoices :
         loc' = [loc EXCEPT ![p] = [IdleLoc EXCEPT !.op = "delete", !.lead_id = id,
                                                 !.stored = dataFile.leads]]
    /\ pc' = [pc EXCEPT ![p] = "load"]
    /\ nops' = nops + 1
    /\ UNCHANGED <<fc_key, ai_key, dataFile, tmpFile, mtime, cache, active, sv,
                   faults, returned, hist>>

(***************************************************************************)
(* load_all(use_cache=True), lines 202-264.                                *)
(***************************************************************************)
CacheHit(p) == cache[p].has /\ cache[p].mtime = mtime

\* Lines 213-238: the cached list is returned when its mtime is the file's;
\* otherwise the file is read and parsed.
Load(p) ==
    /\ pc[p] = "load"
    /\ IF CacheHit(p)
       THEN /\ loc' = [loc EXCEPT ![p].leads = cache[p].leads, ![p].aliased = TRUE,
                                  ![p].loaded = cache[p].leads]
            /\ pc' = [pc EXCEPT ![p] = "modify"]
       ELSE LET L == LoadedFrom(dataFile, TRUE, test_mode)
            IN  /\ loc' = [loc EXCEPT ![p].leads = L, ![p].loaded = L]
                /\ pc' = [pc EXCEPT ![p] = IF LoadCaches(dataFile, TRUE)
                                           THEN "store" ELSE "modify"]
    /\ UNCHANGED <<fc_key, ai_key, dataFile, tmpFile, mtime, cache, active, sv, nops, faults,
                   returned, hist>>

\* The read of the data file raises (lines 257-264): nothing is cached.
LoadFail(p) ==
    /\ pc[p] = "load" /\ ~CacheHit(p) /\ MayFail
    /\ LET L == LoadedFrom(dataFile, FALSE, test_mode)
       IN  loc' = [loc EXCEPT ![p].leads = L, ![p].loaded = L]
    /\ pc' = [pc EXCEPT ![p] = "modify"]
    /\ faults' = faults + 1
    /\ UNCHANGED <<fc_key, ai_key, dataFile, tmpFile, mtime, cache, active, sv, nops,
                   returned, hist>>

\* Lines 241-247: the list just built is stored in the cache, with the
\* file's mtime as it is now, and returned (the same object).
LoadStore(p) ==
    /\ pc[p] = "store"
    /\ cache' = [cache EXCEPT ![p] = [has |-> TRUE, leads |-> loc[p].leads, mtime |-> mtime]]
    /\ loc' = [loc EXCEPT ![p].aliased = TRUE]
    /\ pc' = [pc EXCEPT ![p] = "modify"]
    /\ UNCHANGED <<fc_key, ai_key, dataFile, tmpFile, mtime, active, sv, nops, faults,
                   returned, hist>>

(***************************************************************************)
(* The modification each operation makes to the loaded list.               *)
(***************************************************************************)
\* add_lead line 311
NextId(leads) == Len(leads) + 1

IndexOfId(leads, id) ==
    IF \E i \in 1..Len(leads) : leads[i].id = id
    THEN CHOOSE i \in 1..Len(leads) :
            /\ leads[i].id = id
            /\ \A j \in 1..(i - 1) : leads[j].id # id
    ELSE 0

WithoutId(leads, id) == SelectSeq(leads, LAMBDA l : l.id # id)

\* An in-place change of the working list shows in the cache when the
\* working list is the cached object.
Mutated(p, list) ==
    IF loc[p].aliased THEN [cache EXCEPT ![p].leads = list] ELSE cache

StartSave(p, list) ==
    sv' = [sv EXCEPT ![p] = [on |-> TRUE, prev |-> dataFile.leads,
                             new |-> MapSeq(to_dict, list)]]

\* add_lead lines 311-316: id, append to the loaded list, call save_all.
AddModify(p) ==
    /\ pc[p] = "modify" /\ loc[p].op = "add"
    /\ LET L == loc[p].leads
           lead == [loc[p].lead EXCEPT !.id = NextId(L)]
       IN  /\ loc' = [loc EXCEPT ![p].lead = lead, ![p].found = TRUE,
                                  ![p].leads = Append(L, lead)]
           /\ cache' = Mutated(p, Append(L, lead))
           /\ StartSave(p, Append(L, lead))
    /\ pc' = [pc EXCEPT ![p] = "write"]
    /\ UNCHANGED <<fc_key, ai_key, dataFile, tmpFile, mtime, active, nops, faults,
                   returned, hist>>

\* update_lead lines 357-366: replace the first lead with that id in place.
UpdateModify(p) ==
    /\ pc[p] = "modify" /\ loc[p].op = "update"
    /\ LET L == loc[p].leads
           idx == IndexOfId(L, loc[p].lead.id)
       IN  IF idx # 0
           THEN /\ loc' = [loc EXCEPT ![p].found = TRUE,
                                      ![p].leads = [L EXCEPT ![idx] = loc[p].lead]]
                /\ cache' = Mutated(p, [L EXCEPT ![idx] = loc[p].lead])
                /\ StartSave(p, [L EXCEPT ![idx] = loc[p].lead])
                /\ pc' = [pc EXCEPT ![p] = "write"]
           ELSE /\ pc' = [pc EXCEPT ![p] = "ret"]
                /\ UNCHANGED <<cache, loc, sv>>
    /\ UNCHANGED <<fc_key, ai_key, dataFile, tmpFile, mtime, active, nops, faults,
                   returned, hist>>

\* delete_lead lines 378-389: a new list without the id, saved when shorter.
DeleteModify(p) ==
    /\ pc[p] = "modify" /\ loc[p].op = "delete"
    /\ LET L == loc[p].leads
           kept == WithoutId(L, loc[p].lead_id)
       IN  IF Len(kept) < Len(L)
           THEN /\ loc' = [loc EXCEPT ![p].found = TRUE, ![p].leads = kept,
                                      ![p].aliased = FALSE]
                /\ StartSave(p, kept)
                /\ pc' = [pc EXCEPT ![p] = "write"]
           ELSE /\ pc' = [pc EXCEPT ![p] = "ret"]
                /\ UNCHANGED <<loc, sv>>
    /\ UNCHANGED <<fc_key, ai_key, dataFile, tmpFile, mtime, cache, active, nops, faults,
                   returned, hist>>

(***************************************************************************)
(* save_all, lines 266-296.                                                *)
(***************************************************************************)
Torn == [exists |-> TRUE, complete |-> FALSE, leads |-> <<>>]

\* Lines 281-283: where json.dump writes.  The result is the pair of files
\* after content has been written.
WriteDirect(data, tmp, content) ==
    [data |-> [complete |-> content.complete, leads |-> content.leads], tmp |-> tmp]
WriteTemp(data, tmp, content) ==
    [data |-> data, tmp |-> content]

SaveWrite(p) ==
    /\ pc[p] = "write"
    /\ LET content == [exists |-> TRUE, complete |-> TRUE,
                       leads |-> MapSeq(to_dict, loc[p].leads)]
           w == WriteTemp(dataFile, tmpFile, content)
       IN  /\ dataFile' = w.data
           /\ tmpFile' = w.tmp
    /\ pc' = [pc EXCEPT ![p] = "replace"]
    /\ UNCHANGED <<fc_key, ai_key, mtime, cache, active, loc, sv, nops, faults,
                   returned, hist>>

\* open() or json.dump raises: nothing written, or a torn file.
SaveWriteFail(p) ==
    /\ pc[p] = "write" /\ MayFail
    /\ \E opened \in BOOLEAN :
         LET w == IF opened THEN WriteTemp(dataFile, tmpFile, Torn)
                  ELSE [data |-> dataFile, tmp |-> tmpFile]
         IN  /\ dataFile' = w.data
             /\ tmpFile' = w.tmp
    /\ pc' = [pc EXCEPT ![p] = "ret"]
    /\ faults' = faults + 1
    /\ UNCHANGED <<fc_key, ai_key, mtime, cache, active, loc, sv, nops,
                   returned, hist>>

\* Line 286: temp_file.replace(data_file); raises when the temp file is gone.
SaveReplace(p) ==
    /\ pc[p] = "replace"
    /\ IF tmpFile.exists
       THEN /\ dataFile' = [complete |-> tmpFile.complete, leads |-> tmpFile.leads]
            /\ tmpFile' = NoFile
            /\ mtime' = mtime + 1
            /\ pc' = [pc EXCEPT ![p] = "finish"]
       ELSE /\ pc' = [pc EXCEPT ![p] = "ret"]
            /\ UNCHANGED <<dataFile, tmpFile, mtime>>
    /\ UNCHANGED <<fc_key, ai_key, cache, active, loc, sv, nops, faults,
                   returned, hist>>

SaveReplaceFail(p) ==
    /\ pc[p] = "replace" /\ MayFail
    /\ pc' = [pc EXCEPT ![p] = "ret"]
    /\ faults' = faults + 1
    /\ UNCHANGED <<fc_key, ai_key, dataFile, tmpFile, mtime, cache, active, loc, sv,
                   nops, returned, hist>>

\* Lines 289-292: _clear_cache, return True.
SaveFinish(p) ==
    /\ pc[p] = "finish"
    /\ cache' = [cache EXCEPT ![p] = NoCache]
    /\ loc' = [loc EXCEPT ![p].saved = TRUE]
    /\ pc' = [pc EXCEPT ![p] = "ret"]
    /\ UNCHANGED <<fc_key, ai_key, dataFile, tmpFile, mtime, active, sv, nops, faults,
                   returned, hist>>

(***************************************************************************)
(* Return of the operation to its caller.                                  *)
(***************************************************************************)
\* add_lead returns the id or raises DataManagerError; update_lead and
\* delete_lead return a boolean.
OpOk(l) == l.found /\ l.saved

Return(p) ==
    /\ pc[p] = "ret"
    /\ hist' = IF Cardinality(active) > 1
               THEN Append(hist, [p |-> p, op |-> loc[p].op, lead |-> loc[p].lead,
                                  lead_id |-> loc[p].lead_id, ok |-> OpOk(loc[p])])
               ELSE hist
    /\ returned' = IF loc[p].op = "add" /\ OpOk(loc[p])
                   THEN Append(returned, loc[p].lead.id) ELSE returned
    /\ loc' = [loc EXCEPT ![p] = IdleLoc]
    /\ pc' = [pc EXCEPT ![p] = "idle"]
    /\ UNCHANGED <<fc_key, ai_key, dataFile, tmpFile, mtime, cache, active, sv, nops,
                   faults>>

\* The caller is interrupted inside save_all (KeyboardInterrupt, kill): the
\* operation is abandoned where it stands; a write in progress may leave a
\* torn temp file, and the session's cache may or may not survive.
Interrupt(p) ==
    /\ pc[p] \in {"write", "replace", "finish"} /\ MayFail
    /\ \E torn \in BOOLEAN, lost \in BOOLEAN :
         LET w == IF torn /\ pc[p] = "write" THEN WriteTemp(dataFile, tmpFile, Torn)
                  ELSE [data |-> dataFile, tmp |-> tmpFile]
         IN  /\ dataFile' = w.data
             /\ tmpFile' = w.tmp
             /\ cache' = IF lost THEN [cache EXCEPT ![p] = NoCache] ELSE cache
    /\ loc' = [loc EXCEPT ![p] = IdleLoc]
    /\ pc' = [pc EXCEPT ![p] = "idle"]
    /\ faults' = faults + 1
    /\ UNCHANGED <<fc_key, ai_key, mtime, active, sv, nops, returned, hist>>

(***************************************************************************)
(* load_all called by itself, on a data file found in any condition.       *)
(***************************************************************************)
CorruptFile == [complete |-> FALSE, leads |-> <<>>]

\* What the data file may hold when the program starts: nothing, a lead
\* written by the program, text that is not JSON, a lead edited by hand to a
\* score no Lead accepts.
DataFiles ==
    { [complete |-> TRUE, leads |-> <<>>],
      [complete |-> TRUE, leads |-> <<[PostInit(NewLead("a", <<"&">>, 70)) EXCEPT !.id = 1]>>],
      CorruptFile,
      [complete |-> TRUE, leads |-> <<[NewLead("a", <<"x">>, 150) EXCEPT !.id = 1]>>] }

CallLoad(p) ==
    /\ p \in active /\ pc[p] = "idle" /\ nops < MaxOps
    /\ loc' = [loc EXCEPT ![p] = [IdleLoc EXCEPT !.op = "load", !.stored = dataFile.leads]]
    /\ pc' = [pc EXCEPT ![p] = "load"]
    /\ nops' = nops + 1
    /\ UNCHANGED <<fc_key, ai_key, dataFile, tmpFile, mtime, cache, active, sv,
                   faults, returned, hist>>

\* load_all returns its list to the caller.
LoadReturn(p) ==
    /\ pc[p] = "modify" /\ loc[p].op = "load"
    /\ pc' = [pc EXCEPT ![p] = "ret"]
    /\ UNCHANGED <<fc_key, ai_key, dataFile, tmpFile, mtime, cache, active, loc, sv,
                   nops, faults, returned, hist>>

(***************************************************************************)
(* Lead analysis: src/services/lead_analyzer.py with its collaborators.    *)
(* A URL is named by the way the outside world answers for it.             *)
(***************************************************************************)
UrlKinds == {"ok", "bad", "down", "err", "oob", "bare"}

\* InputValidator.validate_url as FirecrawlClient.scrape_url uses it
UrlText(u) ==
    IF u = "bad" THEN <<"exa mple">> ELSE <<"https://", "example.com", "/p">>
ValidUrl(u) == validate_url(UrlText(u)).valid

\* hashlib.md5(url)[:8] as the mock generators use it
UrlHash(u) ==
    CASE u = "ok" -> 7 [] u = "down" -> 12 [] u = "err" -> 23
      [] u = "oob" -> 31 [] u = "bare" -> 44 [] OTHER -> 0

MockCompanies == << <<"T">>, <<"D">>, <<"C">>, <<"S">>, <<"G">> >>
MockCompany(u) == MockCompanies[(UrlHash(u) % Len(MockCompanies)) + 1]

\* LeadAnalyzer._initialize_clients: the fetcher is the mock when the
\* Firecrawl key is not valid (lines 53-67), the scorer is the mock when no
\* AI key is configured (lines 70-91).
fetcher_mock == ~fc_key
scorer_mock == ~ai_key

\* FirecrawlClient.scrape_url: validation, then mock content or the API.
scrape_url(u) ==
    IF ~ValidUrl(u) THEN [success |-> FALSE, content |-> <<>>]
    ELSE IF fetcher_mock THEN [success |-> TRUE, content |-> MockCompany(u)]
    ELSE IF u = "down" THEN [success |-> FALSE, content |-> <<>>]
    ELSE [success |-> TRUE, content |-> <<"&">>]

\* OpenAIClient.analyze_lead: the mock analysis, or what the model answered.
\* keys: the fields present in the returned dictionary.
AiKeys == {"company_name", "lead_score", "industry", "recommended_action"}
NoAi == [keys |-> {}, company_name |-> <<>>, lead_score |-> 0, industry |-> <<>>,
         recommended_action |-> ""]

\* MockDataGenerator.get_mock_lead_analysis: the name is the heading of the
\* content, score and industry come from the URL's hash, the action from the
\* score.
MockIndustries == << <<"B">>, <<"E">>, <<"D">>, <<"C">>, <<"M">>, <<"I">>, <<"A">>, <<"S">> >>
get_mock_by_store(content, u) ==
    [keys |-> AiKeys, company_name |-> content,
     lead_score |-> 45 + (Len(dataFile.leads) % 50),
     industry |-> MockIndustries[1], recommended_action |-> "Qualified"]
get_mock_lead_analysis(content, u) ==
    LET base_score == 45 + (UrlHash(u) % 50)
    IN  [keys |-> AiKeys, company_name |-> content, lead_score |-> base_score,
         industry |-> MockIndustries[(UrlHash(u) % Len(MockIndustries)) + 1],
         recommended_action |-> IF base_score >= 70 THEN "Qualified"
                                ELSE IF base_score >= 60 THEN "Further Research"
                                ELSE "Disqualified"]

analyze_lead(u, content) ==
    IF scorer_mock THEN get_mock_lead_analysis(content, u)
    ELSE IF u = "err" THEN [NoAi EXCEPT !.keys = {"error"}]
    ELSE IF u = "oob"
         THEN [keys |-> AiKeys, company_name |-> content, lead_score |-> 150,
               industry |-> <<"I">>, recommended_action |-> "Qualified"]
    ELSE IF u = "bare" THEN NoAi
    ELSE [keys |-> AiKeys, company_name |-> content, lead_score |-> 70,
          industry |-> <<"I">>, recommended_action |-> "Qualified"]

\* analyze_single_url line 158: 'error' in ai_result
HasErrorNever(ai) == FALSE
HasError(ai) == "error" \in ai.keys

\* Lead.from_ai_analysis: the fields of the dictionary, or their defaults.
from_ai_analysis(u, ai) ==
    [NewLead(u,
             IF "company_name" \in ai.keys THEN ai.company_name ELSE Unknown,
             IF "lead_score" \in ai.keys THEN ai.lead_score ELSE 0)
       EXCEPT !.industry = IF "industry" \in ai.keys THEN ai.industry ELSE Unknown,
              !.recommended_action = IF "recommended_action" \in ai.keys
                                     THEN ai.recommended_action ELSE "Further Research"]

\* KnowledgeBaseService.get_context_for_prompt: "" when search finds nothing.
get_context_for_prompt == IF kbvec = {} THEN "" ELSE "ctx"

\* The request text a scorer builds, by its parts: the scraped content and
\* the knowledge-base context.
NoPrompt == [content |-> <<>>, context |-> ""]

\* OpenAIClient._build_prompt: profile, URL and content.
OpenAI_build_prompt(content, ctx) == [content |-> content, context |-> ""]

\* AnthropicClient._build_prompt: the context is added when it is not empty.
Anthropic_build_prompt(content, ctx) == [content |-> content, context |-> ctx]

\* _initialize_clients lines 70-91: the client of the configured provider,
\* or the OpenAI client in test mode.
build_prompt(content, ctx) ==
    IF ai_provider = "Anthropic" THEN Anthropic_build_prompt(content, ctx)
    ELSE OpenAI_build_prompt(content, ctx)

IdleAn == [pc |-> "idle", url |-> "", content |-> <<>>, ctx |-> "", ai |-> NoAi,
           lead |-> NoLeadArg, has_lead |-> FALSE, success |-> FALSE, lead_id |-> 0,
           scored |-> FALSE, failed_at |-> "", steps |-> <<>>, ctx_raised |-> FALSE,
           prompted |-> FALSE, prompt |-> NoPrompt]
IdleBulk == [pc |-> "idle", input |-> <<>>, urls |-> <<>>, idx |-> 0, results |-> <<>>,
             sleeps |-> 0, view |-> <<>>, stop |-> FALSE]
NoBefore == [file |-> [complete |-> TRUE, leads |-> <<>>], cache |-> NoCache]

AnInit ==
    /\ kb_on \in BOOLEAN
    /\ ai_provider = "OpenAI"
    /\ an = IdleAn
    /\ bulk = IdleBulk
    /\ before = NoBefore

AnIdle ==
    /\ kb_on = FALSE
    /\ ai_provider = "OpenAI"
    /\ an = IdleAn
    /\ bulk = IdleBulk
    /\ before = NoBefore

Started(u) == [IdleAn EXCEPT !.pc = "fetch", !.url = u]
\* steps (history): the steps this call has entered, in order.
Did(step) == Append(an.steps, step)
Retried(at) == [an EXCEPT !.pc = "fetch"]
Failed(at) == [an EXCEPT !.pc = "done", !.success = FALSE, !.failed_at = at]

\* An exception leaves the analyzer, pc = "raised"; or, as the except
\* branches of lines 175-177 and 199-201 have it, it is turned into a result.
Escapes(at) == [an EXCEPT !.pc = "raised", !.failed_at = at]
Caught(at) == Failed(at)

\* analyze_and_save(url) is called.
AnalyzeCall ==
    /\ an.pc \in {"idle", "done"} /\ bulk.pc = "idle" /\ pc[1] = "idle"
    /\ nops < MaxOps
    /\ \E u \in UrlKinds : an' = Started(u)
    /\ before' = [file |-> dataFile, cache |-> cache[1]]
    /\ nops' = nops + 1
    /\ UNCHANGED <<fc_key, ai_key, dataFile, tmpFile, mtime, cache, active, pc, loc, sv,
                   faults, returned, hist, kb_on, ai_provider, bulk>>

\* analyze_single_url lines 123-129
Fetch ==
    /\ an.pc = "fetch"
    /\ LET r == scrape_url(an.url)
       IN  an' = [(IF r.success THEN [an EXCEPT !.pc = "context", !.content = r.content]
                   ELSE Failed("fetch")) EXCEPT !.steps = Did("fetch")]
    /\ UNCHANGED <<storeVars, kb_on, ai_provider, bulk, before>>

\* Lines 132-146: context retrieval, only with a knowledge base.
Context ==
    /\ an.pc = "context"
    /\ an' = [an EXCEPT !.pc = "score",
                        !.ctx = IF kb_on THEN get_context_for_prompt ELSE "",
                        !.steps = IF kb_on THEN Did("context") ELSE an.steps]
    /\ UNCHANGED <<storeVars, kb_on, ai_provider, bulk, before>>

\* Lines 145-146: retrieval raised; logged, the context stays empty.
ContextFailAborts ==
    /\ an.pc = "context" /\ kb_on /\ MayFail
    /\ an' = [Failed("context") EXCEPT !.steps = Did("context"), !.ctx_raised = TRUE]
    /\ faults' = faults + 1
    /\ UNCHANGED <<fc_key, ai_key, dataFile, tmpFile, mtime, cache, active, pc, loc, sv,
                   nops, returned, hist, kb_on, ai_provider, bulk, before>>
ContextFail ==
    /\ an.pc = "context" /\ kb_on /\ MayFail
    /\ an' = [an EXCEPT !.pc = "score", !.ctx = "", !.steps = Did("context"),
                        !.ctx_raised = TRUE]
    /\ faults' = faults + 1
    /\ UNCHANGED <<fc_key, ai_key, dataFile, tmpFile, mtime, cache, active, pc, loc, sv,
                   nops, returned, hist, kb_on, ai_provider, bulk, before>>

\* Lines 149-160
Score ==
    /\ an.pc = "score"
    /\ LET ai == analyze_lead(an.url, an.content)
           r == IF HasError(ai)
                THEN [Failed("score") EXCEPT !.ai = ai, !.scored = TRUE,
                                             !.steps = Did("score")]
                ELSE [an EXCEPT !.pc = "construct", !.ai = ai, !.scored = TRUE,
                                !.steps = Did("score")]
       IN  an' = IF scorer_mock THEN r
                 ELSE [r EXCEPT !.prompted = TRUE,
                                !.prompt = build_prompt(an.content, an.ctx)]
    /\ UNCHANGED <<storeVars, kb_on, ai_provider, bulk, before>>

\* Lines 163-177: the Lead is built; a constructor that raises is a failure.
Construct ==
    /\ an.pc = "construct"
    /\ LET d == from_ai_analysis(an.url, an.ai)
       IN  an' = [(IF PostInitOk(d)
                   THEN [an EXCEPT !.pc = "persist", !.lead = PostInit(d),
                                   !.has_lead = TRUE]
                   ELSE Caught("construct")) EXCEPT !.steps = Did("construct")]
    /\ UNCHANGED <<storeVars, kb_on, ai_provider, bulk, before>>

\* analyze_and_save lines 194-195: add_lead(lead) is entered.
Persist ==
    /\ an.pc = "persist" /\ pc[1] = "idle"
    /\ loc' = [loc EXCEPT ![1] = [IdleLoc EXCEPT !.op = "add", !.lead = an.lead]]
    /\ pc' = [pc EXCEPT ![1] = "load"]
    /\ an' = [an EXCEPT !.pc = "adding", !.steps = Did("add")]
    /\ UNCHANGED <<fc_key, ai_key, dataFile, tmpFile, mtime, cache, active, sv, nops,
                   faults, returned, hist, kb_on, ai_provider, bulk, before>>

\* Lines 195-201: add_lead returned an id, or raised and was caught.
AddReturn ==
    /\ an.pc = "adding" /\ pc[1] = "ret"
    /\ returned' = IF OpOk(loc[1]) THEN Append(returned, loc[1].lead.id) ELSE returned
    /\ an' = IF OpOk(loc[1])
             THEN [an EXCEPT !.pc = "done", !.success = TRUE, !.lead_id = loc[1].lead.id]
             ELSE Caught("store")
    /\ loc' = [loc EXCEPT ![1] = IdleLoc]
    /\ pc' = [pc EXCEPT ![1] = "idle"]
    /\ UNCHANGED <<fc_key, ai_key, dataFile, tmpFile, mtime, cache, active, sv, nops,
                   faults, hist, kb_on, ai_provider, bulk, before>>

(***************************************************************************)
(* analyze_bulk_urls, lines 203-245.                                       *)
(***************************************************************************)
MAX_BULK_URLS == 50
BulkUrls == {"ok", "down", "bad"}

Truncated(urls) ==
    IF Len(urls) > MAX_BULK_URLS THEN SubSeq(urls, 1, MAX_BULK_URLS) ELSE urls

\* The batches tried: every short batch, and two long ones around the cap.
BulkInputs ==
    UNION {[1..n -> BulkUrls] : n \in 0..MaxBatch}
      \cup {[i \in 1..n |-> "ok"] : n \in {MAX_BULK_URLS, MAX_BULK_URLS + 1}}

\* What load_all(use_cache=False) shows of the data file.
View == LoadedFrom(dataFile, TRUE, test_mode)

BulkCall ==
    /\ bulk.pc = "idle" /\ an.pc = "idle"
    /\ \E input \in BulkInputs :
         bulk' = [IdleBulk EXCEPT !.pc = "loop", !.input = input,
                                  !.urls = Truncated(input), !.idx = 1, !.view = View]
    /\ UNCHANGED <<storeVars, kb_on, ai_provider, an, before>>

\* Lines 226-229: the next URL is handed to analyze_and_save.
BulkNext ==
    /\ bulk.pc = "loop" /\ bulk.idx <= Len(bulk.urls)
    /\ an' = Started(bulk.urls[bulk.idx])
    /\ before' = [file |-> dataFile, cache |-> cache[1]]
    /\ bulk' = [bulk EXCEPT !.pc = "wait"]
    /\ nops' = nops + 1
    /\ UNCHANGED <<fc_key, ai_key, dataFile, tmpFile, mtime, cache, active, pc, loc, sv,
                   faults, returned, hist, kb_on, ai_provider>>

\* Lines 231-240: the outcome is appended; a delay follows unless this was
\* the last URL.
BulkCollectThenSleep ==
    /\ bulk.pc = "wait" /\ an.pc = "done"
    /\ bulk' = [bulk EXCEPT
                  !.results = Append(@, [url |-> an.url, success |-> an.success,
                                         lead_id |-> an.lead_id]),
                  !.pc = "sleep",
                  !.idx = @]
    /\ an' = IdleAn
    /\ UNCHANGED <<storeVars, kb_on, ai_provider, before>>
BulkCollect ==
    /\ bulk.pc = "wait" /\ an.pc = "done"
    /\ bulk' = [bulk EXCEPT
                  !.results = Append(@, [url |-> an.url, success |-> an.success,
                                         lead_id |-> an.lead_id]),
                  !.pc = IF bulk.idx < Len(bulk.urls) THEN "sleep" ELSE "loop",
                  !.idx = IF bulk.idx < Len(bulk.urls) THEN @ ELSE @ + 1]
    /\ an' = IdleAn
    /\ UNCHANGED <<storeVars, kb_on, ai_provider, before>>

\* Line 240: time.sleep(delay)
BulkSleep ==
    /\ bulk.pc = "sleep"
    /\ bulk' = [bulk EXCEPT !.pc = "loop", !.idx = @ + 1, !.sleeps = @ + 1]
    /\ UNCHANGED <<storeVars, kb_on, ai_provider, an, before>>

\* The caller asks the running batch to stop.  analyze_bulk_urls takes
\* urls and delay only and reads no flag inside its loop (lines 203-245):
\* the request is recorded and nothing else changes.
BulkStopRequest ==
    /\ bulk.pc \in {"loop", "wait", "sleep"} /\ ~bulk.stop
    /\ bulk' = [bulk EXCEPT !.stop = TRUE]
    /\ UNCHANGED <<storeVars, kb_on, ai_provider, an, before>>

\* Lines 242-245: the loop is over, the results are returned.
BulkReturn ==
    /\ bulk.pc = "loop" /\ bulk.idx > Len(bulk.urls)
    /\ bulk' = [bulk EXCEPT !.pc = "returned"]
    /\ UNCHANGED <<storeVars, kb_on, ai_provider, an, before>>

(***************************************************************************)
(* Knowledge base: src/services/knowledge_base.py.                         *)
(***************************************************************************)
MaxDocs == 2
MIN_TEXT_LENGTH == 50

\* An uploaded file, by what extraction makes of it: ext, whether the
\* extractor raises, the length of the text and the number of chunks the
\* splitter cuts it into; noname: the filename given is empty.
Uploads ==
    { [ext |-> "exe", raises |-> FALSE, chars |-> 60, chunks |-> 1, noname |-> FALSE],
      [ext |-> "pdf", raises |-> TRUE, chars |-> 60, chunks |-> 1, noname |-> FALSE],
      [ext |-> "txt", raises |-> FALSE, chars |-> 49, chunks |-> 1, noname |-> FALSE],
      [ext |-> "txt", raises |-> FALSE, chars |-> 50, chunks |-> 1, noname |-> FALSE],
      [ext |-> "txt", raises |-> FALSE, chars |-> 60, chunks |-> 2, noname |-> FALSE],
      [ext |-> "txt", raises |-> FALSE, chars |-> 60, chunks |-> 1, noname |-> TRUE] }
NoUpload == [ext |-> "", raises |-> FALSE, chars |-> 0, chunks |-> 0, noname |-> FALSE]

\* add_document lines 153-167: the type is supported, extraction succeeds
\* and yields at least 50 characters.
ExtractedAnyLength(f) ==
    /\ f.ext \in {"pdf", "docx", "txt"}
    /\ ~f.raises
Extracted(f) ==
    /\ f.ext \in {"pdf", "docx", "txt"}
    /\ ~f.raises
    /\ ~(f.chars < MIN_TEXT_LENGTH)

NoDoc == [id |-> 0, num_chunks |-> 0]
\* prior (history): catalog, index and stored files when the operation was called.
NoPrior == [cat |-> [complete |-> TRUE, docs |-> <<>>], vec |-> {}, files |-> {}]
IdleKb == [pc |-> "idle", op |-> "none", file |-> NoUpload, doc_id |-> 0,
           docs |-> <<>>, document |-> NoDoc, ok |-> FALSE, found |-> FALSE,
           listed |-> FALSE, fault |-> "none", prior |-> NoPrior]

KbInit ==
    /\ kbcat = [complete |-> TRUE, docs |-> <<>>]
    /\ kbvec = {}
    /\ kbfiles = {}
    /\ kbdoc = {}
    /\ kb = [p \in Procs |-> IdleKb]

\* list_documents, lines 303-322: an unreadable catalog reads as empty.
list_documents == IF kbcat.complete THEN kbcat.docs ELSE <<>>

DocIds(docs) == {docs[i].id : i \in 1..Len(docs)}
EntriesOf(id) == {e \in kbvec : e[1] = id}
KbDone(p, ok) == [kb EXCEPT ![p].pc = "done", ![p].ok = ok]
KbFailed(p, what) == [kb EXCEPT ![p].pc = "done", ![p].ok = FALSE, ![p].fault = what]
KbFrame == UNCHANGED <<fc_key, ai_key, dataFile, tmpFile, mtime, cache, active, pc, loc,
                       sv, nops, returned, hist, kb_on, ai_provider, an, bulk, before, mo, sc, km>>

KbNow == [cat |-> kbcat, vec |-> kbvec, files |-> kbfiles]

\* add_document lines 149-170: type, extraction, length check, uuid4.
KbCallAdd(p) ==
    /\ p \in active /\ kb[p].pc \in {"idle", "done"}
    /\ Cardinality(kbdoc) < MaxDocs
    /\ \E f \in Uploads :
         IF Extracted(f)
         THEN LET id == Cardinality(kbdoc) + 1
              IN  /\ kb' = [kb EXCEPT ![p] = [IdleKb EXCEPT !.pc = "copy", !.op = "add",
                                                !.file = f, !.doc_id = id,
                                                !.prior = KbNow]]
                  /\ kbdoc' = kbdoc \cup {id}
         ELSE /\ kb' = [kb EXCEPT ![p] = [IdleKb EXCEPT !.pc = "done", !.op = "add",
                                            !.file = f, !.prior = KbNow]]
              /\ UNCHANGED kbdoc
    /\ UNCHANGED <<kbcat, kbvec, kbfiles, faults>>
    /\ KbFrame

\* Lines 173-176: the upload is copied into the documents directory.
KbCopy(p) ==
    /\ kb[p].pc = "copy"
    /\ kbfiles' = kbfiles \cup {kb[p].doc_id}
    /\ kb' = [kb EXCEPT ![p].pc = "insert"]
    /\ UNCHANGED <<kbcat, kbvec, kbdoc, faults>>
    /\ KbFrame

KbCopyFail(p) ==
    /\ kb[p].pc = "copy" /\ MayFail
    /\ kb' = KbFailed(p, "copy")
    /\ faults' = faults + 1
    /\ UNCHANGED <<kbcat, kbvec, kbfiles, kbdoc>>
    /\ KbFrame

\* Lines 179-196: split, tag every chunk with doc_id, add_documents.
KbInsert(p) ==
    /\ kb[p].pc = "insert"
    /\ kbvec' = kbvec \cup {<<kb[p].doc_id, i>> : i \in 0..(kb[p].file.chunks - 1)}
    /\ kb' = [kb EXCEPT ![p].pc = "metrics"]
    /\ UNCHANGED <<kbcat, kbfiles, kbdoc, faults>>
    /\ KbFrame

\* Splitting, embedding or the insert raises: add_documents is one call and
\* nothing of it is in the index.
KbInsertFail(p) ==
    /\ kb[p].pc = "insert" /\ MayFail
    /\ kb' = KbFailed(p, "insert")
    /\ faults' = faults + 1
    /\ UNCHANGED <<kbcat, kbvec, kbfiles, kbdoc>>
    /\ KbFrame

\* Lines 199-231: metrics, then Document(...), whose __post_init__ raises on
\* an empty filename.
KbMetrics(p) ==
    /\ kb[p].pc = "metrics"
    /\ kb' = IF kb[p].file.noname THEN KbFailed(p, "document")
             ELSE [kb EXCEPT ![p].pc = "catread",
                             ![p].document = [id |-> kb[p].doc_id,
                                              num_chunks |-> kb[p].file.chunks]]
    /\ UNCHANGED <<kbcat, kbvec, kbfiles, kbdoc, faults>>
    /\ KbFrame

\* file_path.stat() raises (the upload is gone).
KbMetricsFail(p) ==
    /\ kb[p].pc = "metrics" /\ MayFail
    /\ kb' = KbFailed(p, "metrics")
    /\ faults' = faults + 1
    /\ UNCHANGED <<kbcat, kbvec, kbfiles, kbdoc>>
    /\ KbFrame

\* _save_document_metadata lines 394-395: read the catalog, append.
KbCatRead(p) ==
    /\ kb[p].pc = "catread"
    /\ kb' = [kb EXCEPT ![p].pc = "catwrite",
                        ![p].docs = Append(list_documents, kb[p].document)]
    /\ UNCHANGED <<kbcat, kbvec, kbfiles, kbdoc, faults>>
    /\ KbFrame

\* _save_all_documents_metadata lines 398-405, then add_document returns
\* success (lines 236-237).
KbCatWrite(p) ==
    /\ kb[p].pc = "catwrite"
    /\ kbcat' = [complete |-> TRUE, docs |-> kb[p].docs]
    /\ kb' = KbDone(p, TRUE)
    /\ UNCHANGED <<kbvec, kbfiles, kbdoc, faults>>
    /\ KbFrame

\* Lines 404-405: the write raises and is only logged; the file is as it
\* was (open failed) or torn (opened with 'w', dump failed).
KbCatWriteFail(p) ==
    /\ kb[p].pc \in {"catwrite", "dcatwrite"} /\ MayFail
    /\ \E opened \in BOOLEAN :
         kbcat' = IF opened THEN [complete |-> FALSE, docs |-> <<>>] ELSE kbcat
    /\ kb' = [KbDone(p, TRUE) EXCEPT ![p].fault = "catalog"]
    /\ faults' = faults + 1
    /\ UNCHANGED <<kbvec, kbfiles, kbdoc>>
    /\ KbFrame

\* delete_document(doc_id) is called.
KbCallDelete(p) ==
    /\ p \in active /\ kb[p].pc \in {"idle", "done"}
    /\ \E id \in 1..MaxDocs :
         kb' = [kb EXCEPT ![p] = [IdleKb EXCEPT !.pc = "vdelete", !.op = "delete",
                                    !.doc_id = id,
                                    !.listed = id \in DocIds(list_documents),
                                    !.prior = KbNow]]
    /\ UNCHANGED <<kbcat, kbvec, kbfiles, kbdoc, faults>>
    /\ KbFrame

\* Line 336: vector_store.delete(where={"doc_id": doc_id})
KbVecDelete(p) ==
    /\ kb[p].pc = "vdelete"
    /\ kbvec' = kbvec \ EntriesOf(kb[p].doc_id)
    /\ kb' = [kb EXCEPT ![p].pc = "lookup"]
    /\ UNCHANGED <<kbcat, kbfiles, kbdoc, faults>>
    /\ KbFrame

KbVecDeleteFail(p) ==
    /\ kb[p].pc = "vdelete" /\ MayFail
    /\ kb' = KbFailed(p, "vdelete")
    /\ faults' = faults + 1
    /\ UNCHANGED <<kbcat, kbvec, kbfiles, kbdoc>>
    /\ KbFrame

\* Lines 340-347 and 356-357: the record is looked up in the catalog.
KbLookup(p) ==
    /\ kb[p].pc = "lookup"
    /\ LET docs == list_documents
       IN  kb' = IF kb[p].doc_id \in DocIds(docs)
                 THEN [kb EXCEPT ![p].docs = docs, ![p].found = TRUE,
                                 ![p].pc = IF kb[p].doc_id \in kbfiles
                                           THEN "unlink" ELSE "dcatwrite"]
                 ELSE KbDone(p, FALSE)
    /\ UNCHANGED <<kbcat, kbvec, kbfiles, kbdoc, faults>>
    /\ KbFrame

\* Line 346: Path(doc.file_path).unlink()
KbUnlink(p) ==
    /\ kb[p].pc = "unlink"
    /\ kbfiles' = kbfiles \ {kb[p].doc_id}
    /\ kb' = [kb EXCEPT ![p].pc = "dcatwrite"]
    /\ UNCHANGED <<kbcat, kbvec, kbdoc, faults>>
    /\ KbFrame

\* unlink raises: the exception reaches the handler of lines 359-361.
KbUnlinkFail(p) ==
    /\ kb[p].pc = "unlink" /\ MayFail
    /\ kb' = KbFailed(p, "unlink")
    /\ faults' = faults + 1
    /\ UNCHANGED <<kbcat, kbvec, kbfiles, kbdoc>>
    /\ KbFrame

\* Lines 349-355: the record is removed and the catalog rewritten.
KbDeleteCatWrite(p) ==
    /\ kb[p].pc = "dcatwrite"
    /\ kbcat' = [complete |-> TRUE,
                 docs |-> SelectSeq(kb[p].docs, LAMBDA d : d.id # kb[p].doc_id)]
    /\ kb' = KbDone(p, TRUE)
    /\ UNCHANGED <<kbvec, kbfiles, kbdoc, faults>>
    /\ KbFrame

\* get_stats lines 363-383
SumChunks(docs) ==
    LET RECURSIVE Sum(_)
        Sum(k) == IF k = 0 THEN 0 ELSE docs[k].num_chunks + Sum(k - 1)
    IN  Sum(Len(docs))
get_stats ==
    [total_documents |-> Len(list_documents), total_chunks |-> Cardinality(kbvec)]

(***************************************************************************)
(* Specifications.                                                         *)
(***************************************************************************)
SameKeys == fc_key \in BOOLEAN /\ ai_key = fc_key
AnyKeys == fc_key \in BOOLEAN /\ ai_key \in BOOLEAN

StoreStep(p) ==
    \/ Load(p) \/ LoadStore(p)
    \/ AddModify(p) \/ UpdateModify(p) \/ DeleteModify(p)
    \/ SaveWrite(p) \/ SaveReplace(p) \/ SaveFinish(p)

StoreFault(p) ==
    \/ LoadFail(p) \/ SaveWriteFail(p) \/ SaveReplaceFail(p)

StoreCall(p) ==
    \/ CallAdd(p) \/ CallUpdate(p) \/ CallDelete(p)
    \/ Return(p)

\* One caller using the store, with failures and interruptions injected.
Init == SameKeys /\ StoreInit({1}) /\ AnIdle /\ KbInit /\ mo = NoObject /\ sc = NoScrape /\ km = NoKeys

Next ==
    /\ \E p \in active : StoreCall(p) \/ StoreStep(p) \/ StoreFault(p) \/ Interrupt(p)
    /\ UNCHANGED <<anVars, kbVars, pureVars>>

Spec == Init /\ [][Next]_vars

\* One caller using the store, nothing fails.
NextSeq ==
    /\ \E p \in active : StoreCall(p) \/ StoreStep(p)
    /\ UNCHANGED <<anVars, kbVars, pureVars>>

SpecSeq == Init /\ [][NextSeq]_vars

\* One caller on a data file found in any condition, with any credentials.
InitFiles ==
    /\ AnyKeys /\ AnIdle /\ KbInit /\ mo = NoObject /\ sc = NoScrape /\ km = NoKeys
    /\ dataFile \in DataFiles
    /\ tmpFile = NoFile
    /\ mtime = 1
    /\ cache = [p \in Procs |-> NoCache]
    /\ active = {1}
    /\ pc = [p \in Procs |-> "idle"]
    /\ loc = [p \in Procs |-> IdleLoc]
    /\ sv = [p \in Procs |-> NoSave]
    /\ nops = 0
    /\ faults = 0
    /\ returned = <<>>
    /\ hist = <<>>

NextFiles ==
    /\ \E p \in active : CallLoad(p) \/ LoadReturn(p) \/ StoreCall(p) \/ StoreStep(p)
    /\ UNCHANGED <<anVars, kbVars, pureVars>>

SpecFiles == InitFiles /\ [][NextFiles]_vars

\* One caller that also reads the store through load_all, while save_all may
\* fail.
NextCache ==
    /\ \E p \in active :
          \/ CallLoad(p) \/ LoadReturn(p) \/ StoreCall(p) \/ StoreStep(p)
          \/ SaveWriteFail(p) \/ SaveReplaceFail(p)
    /\ UNCHANGED <<anVars, kbVars, pureVars>>

SpecCache == Init /\ [][NextCache]_vars

\* Two callers (sessions) using the store at the same time, nothing fails.
InitConc == SameKeys /\ StoreInit({1, 2}) /\ AnIdle /\ KbInit /\ mo = NoObject /\ sc = NoScrape /\ km = NoKeys

NextConc ==
    /\ \E p \in active : StoreCall(p) \/ StoreStep(p)
    /\ UNCHANGED <<anVars, kbVars, pureVars>>

SpecConc == InitConc /\ [][NextConc]_vars

\* The knowledge base as the analyzer finds it: empty, or one document in.
KbHolds(n) ==
    /\ kbcat = [complete |-> TRUE, docs |-> [i \in 1..n |-> [id |-> i, num_chunks |-> 1]]]
    /\ kbvec = {<<i, 0>> : i \in 1..n}
    /\ kbfiles = 1..n
    /\ kbdoc = 1..n
    /\ kb = [p \in Procs |-> IdleKb]

InitAnalyzer ==
    /\ AnyKeys /\ StoreInit({1}) /\ AnInit
    /\ \E n \in 0..1 : (n = 1 => kb_on) /\ KbHolds(n)
    /\ mo = NoObject /\ sc = NoScrape /\ km = NoKeys

AnalysisStep ==
    \/ Fetch \/ Context \/ ContextFail \/ Score \/ Construct \/ Persist \/ AddReturn

AnalyzerStoreStep ==
    /\ an.pc = "adding"
    /\ \/ Load(1) \/ LoadFail(1) \/ LoadStore(1) \/ AddModify(1)
       \/ SaveWrite(1) \/ SaveWriteFail(1) \/ SaveReplace(1) \/ SaveReplaceFail(1)
       \/ SaveFinish(1)
    /\ UNCHANGED anVars

\* analyze_and_save called for one URL after another.
NextAnalyzer ==
    /\ AnalyzeCall \/ AnalysisStep \/ AnalyzerStoreStep
    /\ UNCHANGED <<kbVars, pureVars>>

SpecAnalyzer == InitAnalyzer /\ [][NextAnalyzer]_vars

\* The same with either provider configured.
InitPrompt ==
    /\ AnyKeys /\ StoreInit({1})
    /\ kb_on \in BOOLEAN /\ ai_provider \in {"OpenAI", "Anthropic"}
    /\ an = IdleAn /\ bulk = IdleBulk /\ before = NoBefore
    /\ \E n \in 0..1 : (n = 1 => kb_on) /\ KbHolds(n)
    /\ mo = NoObject /\ sc = NoScrape /\ km = NoKeys

SpecPrompt == InitPrompt /\ [][NextAnalyzer]_vars

\* One call of analyze_bulk_urls.
NextBulk ==
    /\ \/ BulkCall \/ BulkNext \/ BulkCollect \/ BulkSleep \/ BulkReturn
       \/ AnalysisStep \/ AnalyzerStoreStep
    /\ UNCHANGED <<kbVars, pureVars>>

SpecBulk == InitAnalyzer /\ [][NextBulk]_vars

\* One call of analyze_bulk_urls that may be asked to stop.
NextCancel ==
    \/ NextBulk
    \/ BulkStopRequest /\ UNCHANGED <<kbVars, pureVars>>

SpecCancel == InitAnalyzer /\ [][NextCancel]_vars

\* One caller ingesting and deleting documents, with failures injected.
KbAddStep(p) ==
    \/ KbCallAdd(p) \/ KbCopy(p) \/ KbInsert(p) \/ KbMetrics(p) \/ KbCatRead(p)
    \/ KbCatWrite(p)

KbStep(p) ==
    \/ KbAddStep(p)
    \/ KbCallDelete(p) \/ KbVecDelete(p) \/ KbLookup(p) \/ KbUnlink(p)
    \/ KbDeleteCatWrite(p)

KbFault(p) ==
    \/ KbCopyFail(p) \/ KbInsertFail(p) \/ KbMetricsFail(p) \/ KbCatWriteFail(p)
    \/ KbVecDeleteFail(p) \/ KbUnlinkFail(p)

NextKB == \E p \in active : KbStep(p) \/ KbFault(p)

SpecKB == Init /\ [][NextKB]_vars

\* Two callers ingesting documents into the same knowledge base at the same
\* time, nothing fails.
NextKBConc == \E p \in active : KbAddStep(p)

SpecKBConc == InitConc /\ [][NextKBConc]_vars

\* Leads and Documents built and converted, nothing else running.
LeadInputs ==
    { [NewLead("ok", name, score) EXCEPT !.industry = industry,
                                         !.recommended_action = action] :
        name \in Texts, industry \in {<<>>, <<"&">>}, score \in Scores, action \in Actions }

\* Dictionaries as json.load returns them from the data file.
StoredDicts ==
    { [NewLead("ok", name, score) EXCEPT !.id = 1, !.recommended_action = action] :
        name \in Texts, score \in Scores, action \in Actions }

\* Dictionaries as the scorer returns them.
AiResults ==
    { [keys |-> keys, company_name |-> name, lead_score |-> score, industry |-> name,
       recommended_action |-> action] :
        keys \in {{}, {"company_name", "lead_score"}, AiKeys},
        name \in Texts, score \in Scores, action \in Actions }

DocInputs ==
    { NewDocument(id, filename, content, doc_type, n) :
        id \in 1..MaxDocs, filename \in {<<>>, <<"f">>, <<"&">>}, content \in Texts,
        doc_type \in {"txt", "exe"}, n \in 1..2 }

MoFrame == UNCHANGED <<storeVars, anVars, kbVars, sc, km>>

\* Lead(url=..., company_name=..., lead_score=..., ...)
LeadConstruct ==
    /\ mo.pc = "idle"
    /\ \E d \in LeadInputs :
         mo' = Built("lead", "construct", d, PostInitOk(d), PostInit(d))
    /\ MoFrame

\* Lead.from_dict(data)
LeadFromDict ==
    /\ mo.pc = "idle"
    /\ \E d \in StoredDicts :
         mo' = Built("lead", "from_dict", d, PostInitOk(d), from_dict(d))
    /\ MoFrame

\* Lead.from_ai_analysis(url, ai_result)
LeadFromAi ==
    /\ mo.pc = "idle"
    /\ \E ai \in AiResults :
         LET d == from_ai_analysis("ok", ai)
         IN  mo' = Built("lead", "from_ai_analysis", d, PostInitOk(d), PostInit(d))
    /\ MoFrame

\* Lead.from_dict(lead.to_dict()) for the Lead just built.
LeadRoundTrip ==
    /\ mo.kind = "lead" /\ mo.pc = "built" /\ ~mo.raised
    /\ LET d == to_dict(mo.value)
       IN  mo' = [mo EXCEPT !.pc = "back", !.raised = ~PostInitOk(d),
                            !.back = IF PostInitOk(d) THEN from_dict(d) ELSE <<>>]
    /\ MoFrame

\* Document(filename=..., content=..., doc_type=..., ...) as add_document
\* builds it.
DocConstruct ==
    /\ mo.pc = "idle"
    /\ \E d \in DocInputs :
         mo' = Built("doc", "construct", d, DocPostInitOk(d), DocPostInit(d))
    /\ MoFrame

\* Document.from_dict(doc.to_dict()) for the Document just built.
DocRoundTrip ==
    /\ mo.kind = "doc" /\ mo.pc = "built" /\ ~mo.raised
    /\ LET d == doc_to_dict(mo.value)
       IN  mo' = [mo EXCEPT !.pc = "back", !.raised = ~DocPostInitOk(d),
                            !.back = IF DocPostInitOk(d) THEN doc_from_dict(d) ELSE <<>>]
    /\ MoFrame

NextModels ==
    \/ LeadConstruct \/ LeadFromDict \/ LeadFromAi \/ LeadRoundTrip
    \/ DocConstruct \/ DocRoundTrip

SpecModels == Init /\ [][NextModels]_vars

\* FirecrawlClient.scrape_url called on any text, nothing else running.
Opt(S) == {<<>>} \cup {<<x>> : x \in S}
UrlTexts ==
    {<<>>} \cup
    { l \o sch \o <<h>> \o prt \o pth \o r :
        l \in Opt({Blank}), sch \in Opt(SchemePieces), h \in HostPieces,
        prt \in Opt(PortPieces), pth \in Opt(PathPieces), r \in Opt({Blank}) }

ScFrame == UNCHANGED <<storeVars, anVars, kbVars, mo, km>>

\* scrape_url(url) is called.
ScrapeCall ==
    /\ sc.pc = "idle"
    /\ \E text \in UrlTexts : sc' = [NoScrape EXCEPT !.pc = "validate", !.given = text]
    /\ ScFrame

\* Lines 139-145: validate_url first; the cleaned URL replaces the argument.
ScrapeValidate ==
    /\ sc.pc = "validate"
    /\ LET r == validate_url(sc.given)
       IN  sc' = IF r.valid THEN [sc EXCEPT !.pc = "fetch", !.url = r.url]
                 ELSE [sc EXCEPT !.pc = "done", !.success = FALSE]
    /\ ScFrame

\* Lines 148-152: test mode returns mock content for the cleaned URL.
ScrapeMock ==
    /\ sc.pc = "fetch" /\ fetcher_mock
    /\ sc' = [sc EXCEPT !.pc = "done", !.success = TRUE, !.mocked = sc.url]
    /\ ScFrame

\* Lines 154-210: the API is called with the cleaned URL and answers or not.
ScrapeApi ==
    /\ sc.pc = "fetch" /\ ~fetcher_mock
    /\ \E ok \in BOOLEAN :
         sc' = [sc EXCEPT !.pc = "done", !.success = ok, !.called = sc.url]
    /\ ScFrame

InitScrape ==
    /\ AnyKeys /\ StoreInit({1}) /\ AnIdle /\ KbInit /\ mo = NoObject /\ sc = NoScrape /\ km = NoKeys

NextScrape == ScrapeCall \/ ScrapeValidate \/ ScrapeMock \/ ScrapeApi

SpecScrape == InitScrape /\ [][NextScrape]_vars

\* KeyManagers constructed on one key-file path and used from the sessions
\* of the application.
KmFrame == UNCHANGED <<storeVars, anVars, kbVars, mo, sc>>

\* KeyManager(key_file)
KmNew ==
    /\ Len(km.inst) < MaxOps
    /\ km' = [km EXCEPT !.inst = Append(@, NewKeyManager)]
    /\ KmFrame

\* cipher (lines 58-63) with _cipher None enters _get_or_create_key, whose
\* first step is key_file.exists() (line 32).
KmExists(i) ==
    /\ km.inst[i].pc = "new"
    /\ km' = [km EXCEPT !.inst[i].pc = IF km.file.state # "none" THEN "load" ELSE "gen",
                        !.inst[i].raised = FALSE]
    /\ KmFrame

\* Lines 33-42: the file is read and checked by Fernet(key); a file that
\* holds no key raises EncryptionError and _cipher stays None.
KmLoad(i) ==
    /\ km.inst[i].pc = "load"
    /\ km' = IF km.file.state = "key"
             THEN [km EXCEPT !.inst[i].pc = "ready", !.inst[i].cipher = km.file.key]
             ELSE [km EXCEPT !.inst[i].pc = "new", !.inst[i].raised = TRUE]
    /\ KmFrame

\* Line 45: Fernet.generate_key()
KmGenerate(i) ==
    /\ km.inst[i].pc = "gen"
    /\ km' = [km EXCEPT !.gen = @ + 1, !.inst[i].key = km.gen + 1, !.inst[i].pc = "touch"]
    /\ KmFrame

\* Line 48: key_file.touch(mode=0o600) creates the file if it is absent.
KmTouch(i) ==
    /\ km.inst[i].pc = "touch"
    /\ km' = [km EXCEPT !.file = IF km.file.state = "none"
                                 THEN [state |-> "empty", key |-> 0] ELSE km.file,
                        !.inst[i].pc = "write"]
    /\ KmFrame

\* Lines 49-52 and 62: the key is written over the file and becomes the
\* instance's cipher.
KmWrite(i) ==
    /\ km.inst[i].pc = "write"
    /\ km' = [km EXCEPT !.file = [state |-> "key", key |-> km.inst[i].key],
                        !.inst[i].pc = "ready", !.inst[i].cipher = km.inst[i].key]
    /\ KmFrame

KmStep(i) ==
    \/ KmExists(i) \/ KmLoad(i) \/ KmGenerate(i) \/ KmTouch(i) \/ KmWrite(i)

NextKeys == KmNew \/ \E i \in 1..Len(km.inst) : KmStep(i)

SpecKeys == Init /\ [][NextKeys]_vars

TypeOK ==
    /\ fc_key \in BOOLEAN /\ ai_key \in BOOLEAN
    /\ nops \in 0..(MAX_BULK_URLS + 1)
    /\ faults \in 0..MaxFaults
    /\ \A p \in Procs :
          pc[p] \in {"idle", "load", "store", "modify", "write", "replace", "finish", "ret"}

(***************************************************************************)
(* Properties of the lead store.                                           *)
(***************************************************************************)
Quiescent == \A p \in Procs : pc[p] = "idle"

IdsOf(leads) == {leads[i].id : i \in 1..Len(leads)}
UrlsOf(leads) == {leads[i].url : i \in 1..Len(leads)}
MaxOf(S) == CHOOSE m \in S : \A x \in S : x <= m

\* C1: after any sequence of add_lead, update_lead and delete_lead calls by
\* one caller, no two leads in the store share an id, and every id returned
\* by add_lead is strictly greater than every id returned by an earlier
\* add_lead.
C1_UniqueMonotonicIds ==
    /\ \A i, j \in 1..Len(dataFile.leads) :
          i # j => dataFile.leads[i].id # dataFile.leads[j].id
    /\ \A i, j \in 1..Len(returned) : i < j => returned[i] < returned[j]

\* C2: two add_lead calls running concurrently on an empty store never both
\* receive id 1; when both have returned their ids, the store holds exactly
\* 2 leads whose ids are {1, 2}.
TwoAddsOnEmptyStore ==
    /\ ~test_mode
    /\ nops = 2 /\ Len(hist) = 2
    /\ hist[1].op = "add" /\ hist[2].op = "add"
    /\ hist[1].p # hist[2].p
    /\ hist[1].ok /\ hist[2].ok

C2_ConcurrentAddsDistinctIds ==
    TwoAddsOnEmptyStore =>
        /\ ~(hist[1].lead.id = 1 /\ hist[2].lead.id = 1)
        /\ Len(dataFile.leads) = 2
        /\ IdsOf(dataFile.leads) = {1, 2}

\* C3: save_all is atomic with respect to the data file: at every point of a
\* save, also one that fails or is interrupted, the data file holds either
\* the complete previous collection or the complete new one, and whenever
\* save_all has returned False the file still holds the previous collection.
SaveReturnedFalse(p) == pc[p] = "ret" /\ loc[p].found /\ ~loc[p].saved

C3_SaveAtomic ==
    /\ dataFile.complete
    /\ \A p \in active :
          /\ sv[p].on => dataFile.leads \in {sv[p].prev, sv[p].new}
          /\ SaveReturnedFalse(p) => dataFile.leads = sv[p].prev

C3_Witness ==
    /\ SaveReturnedFalse(1)
    /\ tmpFile = Torn
    /\ sv[1].prev # sv[1].new
    /\ Len(sv[1].prev) > 0
    /\ dataFile.leads = sv[1].prev

\* C7: concurrent add_lead, update_lead and delete_lead do not interleave
\* their load-modify-save cycles: the final collection equals the outcome of
\* some sequential order of the completed operations, each taken with the
\* outcome it reported.
SeqOp(F, h) ==
    LET L == LoadedFrom([complete |-> TRUE, leads |-> F], TRUE, test_mode)
    IN  IF ~h.ok THEN F
        ELSE IF h.op = "add" THEN Append(L, [h.lead EXCEPT !.id = NextId(L)])
        ELSE IF h.op = "update"
             THEN (IF IndexOfId(L, h.lead.id) # 0
                   THEN [L EXCEPT ![IndexOfId(L, h.lead.id)] = h.lead] ELSE F)
        ELSE (IF Len(WithoutId(L, h.lead_id)) < Len(L) THEN WithoutId(L, h.lead_id) ELSE F)

RECURSIVE SeqRun(_, _, _)
SeqRun(F, order, k) ==
    IF k > Len(order) THEN F
    ELSE SeqRun(SeqOp(F, hist[order[k]]), order, k + 1)

Orders(n) == {f \in [1..n -> 1..n] : \A i, j \in 1..n : i # j => f[i] # f[j]}

C7_Serializable ==
    (Cardinality(active) > 1 /\ Quiescent) =>
        \E order \in Orders(Len(hist)) : SeqRun(<<>>, order, 1) = dataFile.leads

\* C8: add_lead on a store holding the leads L assigns the new lead the id
\* max{id of l : l in L} + 1, or 1 when L is empty, appends it to the
\* collection and returns that id.
AddReturnsId(p) == pc[p] = "ret" /\ loc[p].op = "add" /\ OpOk(loc[p])

C8_AddAssignsMaxPlusOne ==
    \A p \in active :
        AddReturnsId(p) =>
            /\ loc[p].lead.id = IF loc[p].loaded = <<>> THEN 1
                                ELSE MaxOf(IdsOf(loc[p].loaded)) + 1
            /\ dataFile.leads = Append(loc[p].loaded, loc[p].lead)

\* C11: load_all on a data file whose content cannot be parsed returns the
\* empty list, whatever the configured credentials are.
LoadReturned(p) == pc[p] = "ret" /\ loc[p].op = "load"

C11_CorruptFileLoadsEmpty ==
    \A p \in active :
        (LoadReturned(p) /\ ~dataFile.complete) => loc[p].loaded = <<>>

\* C12: update_lead and delete_lead called with an id that no stored lead
\* has return False, and the stored collection is what it was before the
\* call.
NotStoredId(p) ==
    /\ pc[p] = "ret" /\ loc[p].op \in {"update", "delete"}
    /\ loc[p].lead_id \notin IdsOf(loc[p].stored)

C12_MissingIdNotFound ==
    \A p \in active :
        NotStoredId(p) => (~OpOk(loc[p]) /\ dataFile.leads = loc[p].stored)

(***************************************************************************)
(* Properties of the analyzer.                                             *)
(***************************************************************************)
\* The analysis has ended and one of the three failures happened: the fetch
\* failed, the scorer's result carries an error field, or no Lead can be
\* constructed from the result.
FetchFailed == ~scrape_url(an.url).success
ScorerError == an.scored /\ "error" \in an.ai.keys
CannotConstruct ==
    an.scored /\ "error" \notin an.ai.keys /\ ~PostInitOk(from_ai_analysis(an.url, an.ai))
AnalysisFailed == an.pc = "done" /\ (FetchFailed \/ ScorerError \/ CannotConstruct)

\* C5: a single-URL analysis that ends in failure (fetch failed, scorer
\* result with an error field, Lead not constructible) returns success =
\* false with no Lead and no lead id, and the lead store holds exactly the
\* collection it held before the call.
C5_FailedAnalysisLeavesStore ==
    AnalysisFailed =>
        /\ ~an.success /\ ~an.has_lead /\ an.lead_id = 0
        /\ dataFile = before.file
        /\ cache[1] = before.cache

C5_Witness ==
    /\ an.pc = "done" /\ ScorerError
    /\ Len(before.file.leads) > 0
    /\ ~an.success /\ dataFile = before.file

\* C13: analyze_single_url, analyze_and_save and analyze_bulk_urls never
\* raise, whatever the fetcher, the knowledge base, the scorer and the store
\* do: no exception leaves them, and every ended analysis is a result with
\* a success flag and, on failure, the step it failed at as its message.
C13_AnalyzerNeverRaises ==
    /\ an.pc # "raised"
    /\ an.pc = "done" =>
          IF an.success THEN an.lead_id # 0 /\ an.failed_at = ""
          ELSE an.failed_at \in {"fetch", "score", "construct", "store"}
    /\ \A i \in 1..Len(bulk.results) : bulk.results[i].success \in BOOLEAN

C13_Witness ==
    /\ bulk.pc = "wait" /\ Len(bulk.results) = 1
    /\ an.pc = "done" /\ an.failed_at = "store" /\ ~an.success

\* C14: when the scraping credential or the AI credential is not valid, the
\* fetcher and the scorer of an analysis are both the mocks; both are real
\* only when both credentials are valid: no analysis runs with one real and
\* one mock collaborator.
C14_MockBothOrNeither ==
    an.scored =>
        /\ fetcher_mock = scorer_mock
        /\ (~fc_key \/ ~ai_key) => (fetcher_mock /\ scorer_mock)

\* C15: with the mock fetcher and the mock scorer the analysis result is a
\* function of the URL alone: the Lead an analysis yields has the same
\* company_name, lead_score, industry and recommended_action as every Lead
\* an earlier analysis of the same URL put in the store, whatever the store
\* holds and whatever was analysed in between.
MockMode == fetcher_mock /\ scorer_mock
SameResult(a, b) ==
    /\ a.company_name = b.company_name
    /\ a.lead_score = b.lead_score
    /\ a.industry = b.industry
    /\ a.recommended_action = b.recommended_action

C15_MockDeterministic ==
    MockMode =>
        /\ an.has_lead =>
              \A i \in 1..Len(dataFile.leads) :
                  dataFile.leads[i].url = an.url => SameResult(dataFile.leads[i], an.lead)
        /\ \A i, j \in 1..Len(dataFile.leads) :
              (dataFile.leads[i].url \in UrlKinds
                 /\ dataFile.leads[i].url = dataFile.leads[j].url)
                  => SameResult(dataFile.leads[i], dataFile.leads[j])

C15_Witness ==
    /\ MockMode /\ kb_on /\ kbvec # {}
    /\ an.pc = "persist" /\ an.has_lead
    /\ \E i, j \in 1..Len(dataFile.leads) :
          /\ i < j
          /\ dataFile.leads[i].url = an.url
          /\ dataFile.leads[j].url \in UrlKinds \ {an.url}

\* C6: analyze_bulk_urls over n URLs returns exactly min(n, 50) entries, the
\* i-th for the i-th URL; a failing URL does not stop the ones after it, and
\* the store gains exactly one new lead per entry marked successful.
Min(a, b) == IF a < b THEN a ELSE b
Successes(results) == Cardinality({i \in 1..Len(results) : results[i].success})

C6_BulkOneLeadPerSuccess ==
    bulk.pc = "returned" =>
        /\ Len(bulk.results) = Min(Len(bulk.input), MAX_BULK_URLS)
        /\ \A i \in 1..Len(bulk.results) : bulk.results[i].url = bulk.input[i]
        /\ Len(View) - Len(bulk.view) = Successes(bulk.results)

(***************************************************************************)
(* Properties of the knowledge base.                                       *)
(***************************************************************************)
KbQuiescent == \A p \in Procs : kb[p].pc \in {"idle", "done"}
AddEnded(p) == kb[p].pc = "done" /\ kb[p].op = "add" /\ kb[p].doc_id # 0
DeleteEnded(p) == kb[p].pc = "done" /\ kb[p].op = "delete"

\* C4: if add_document fails at any step after text extraction it reports
\* failure, the catalog holds no record for the attempt and the index no
\* entry tagged with its document id; it reports success only after the
\* catalog record has been persisted.
C4_IngestAllOrNothing ==
    \A p \in active :
        AddEnded(p) =>
            /\ ~kb[p].ok => /\ kb[p].doc_id \notin DocIds(kbcat.docs)
                            /\ EntriesOf(kb[p].doc_id) = {}
            /\ kb[p].ok => /\ kbcat.complete
                           /\ kb[p].doc_id \in DocIds(kbcat.docs)

\* C9: whenever no add_document or delete_document call is in progress, the
\* document ids tagged on index entries are exactly the ids in the catalog,
\* each record's num_chunks is the number of entries tagged with its id, and
\* get_stats reports total_chunks equal to the sum of num_chunks.
C9_CatalogMatchesIndex ==
    KbQuiescent =>
        LET docs == list_documents
        IN  /\ {e[1] : e \in kbvec} = DocIds(docs)
            /\ \A i \in 1..Len(docs) :
                  docs[i].num_chunks = Cardinality(EntriesOf(docs[i].id))
            /\ get_stats.total_chunks = SumChunks(docs)

\* C10: delete_document for a catalogued document removes its index
\* entries, its catalog record and its backing file if present, and reports
\* success; a failure to remove the backing file neither makes the delete
\* report failure nor leaves the catalog record in place.
C10_DeleteRemovesAll ==
    \A p \in active :
        (DeleteEnded(p) /\ kb[p].listed /\ kb[p].fault \in {"none", "unlink"}) =>
            /\ kb[p].ok
            /\ EntriesOf(kb[p].doc_id) = {}
            /\ kb[p].doc_id \notin DocIds(list_documents)
            /\ kb[p].fault = "none" => kb[p].doc_id \notin kbfiles

\* C16: two add_document calls for different documents running at the same
\* time both end with their record in the catalog.
AddSucceeded(p) == kb[p].op = "add" /\ kb[p].pc = "done" /\ kb[p].ok
C16_BothAddsInCatalog ==
    \A p, q \in active :
        (p # q /\ AddSucceeded(p) /\ AddSucceeded(q))
            => {kb[p].doc_id, kb[q].doc_id} \subseteq DocIds(list_documents)

\* C17: Lead.from_dict(lead.to_dict()) equals lead for every Lead, and
\* Document.from_dict(doc.to_dict()) equals doc for every ingested Document.
C17_RoundTrip ==
    mo.pc = "back" => (~mo.raised /\ mo.back = mo.value)

\* The Document half of C17 on its own.
DocRoundTripHolds ==
    (mo.pc = "back" /\ mo.kind = "doc") => (~mo.raised /\ mo.back = mo.value)

\* C18: constructing a Lead with a score outside [0,100] fails, with a score
\* inside [0,100] it succeeds; an action outside the three valid ones
\* becomes "Further Research"; every Lead produced by construction,
\* from_dict or from_ai_analysis has a score in [0,100] and a valid action.
InRange(score) == 0 <= score /\ score <= 100
ThreeActions == {"Qualified", "Disqualified", "Further Research"}
LeadProduced(l) == InRange(l.lead_score) /\ l.recommended_action \in ThreeActions
C18_ScoreAndActionValidated ==
    (mo.kind = "lead" /\ mo.pc \in {"built", "back"}) =>
        /\ mo.pc = "built" => (mo.raised <=> ~InRange(mo.input.lead_score))
        /\ ~mo.raised =>
              /\ LeadProduced(mo.value)
              /\ mo.value.lead_score = mo.input.lead_score
              /\ mo.value.recommended_action =
                    IF mo.input.recommended_action \in ThreeActions
                    THEN mo.input.recommended_action ELSE "Further Research"
              /\ mo.pc = "back" => LeadProduced(mo.back)
C18_Witness ==
    /\ mo.kind = "lead" /\ mo.via = "from_ai_analysis" /\ mo.pc = "built" /\ ~mo.raised
    /\ mo.input.lead_score = 100
    /\ mo.input.recommended_action = "Call now"
    /\ mo.value.recommended_action = "Further Research"

\* C19: scrape_url validates and normalizes the URL before anything else: a
\* URL that does not match the http(s) URL grammar, whose host is localhost,
\* 127.0.0.1 or 0.0.0.0, or that contains a <script, <iframe or javascript:
\* substring yields a failure with no external call and no mock content;
\* a valid URL given without a scheme is fetched as "https://" followed by
\* the given text.
Normalized(given) ==
    IF HasScheme(strip(given)) THEN strip(given) ELSE <<"https://">> \o strip(given)
GivenRejected(given) ==
    \/ ~URL_PATTERN(Normalized(given))
    \/ \E i \in 1..Len(given) : given[i] \in {"localhost", "LOCALHOST", "127.0.0.1", "0.0.0.0"}
    \/ \E i \in 1..Len(given) : given[i] \in {"/<script", "/<iframe", "?u=javascript:"}
\* The text as given is a URL once "https://" is put in front of it.
ValidWithoutScheme(given) ==
    /\ given # <<>> /\ Head(given) \notin SchemePieces
    /\ URL_PATTERN(<<"https://">> \o given)
    /\ ~GivenRejected(given)
Fetched == IF fetcher_mock THEN sc.mocked ELSE sc.called
C19_RejectedWitness ==
    /\ sc.pc = "done" /\ sc.given = <<"http://", "localhost", ":8000">> /\ ~sc.success

\* C20: add_document on a file whose extracted text has fewer than 50
\* characters reports failure and changes nothing: no catalog record, no
\* vector-index entry and no stored file copy is created for that attempt.
ShortTextAdd(p) ==
    /\ kb[p].op = "add" /\ kb[p].pc # "idle"
    /\ kb[p].file.ext \in {"pdf", "docx", "txt"} /\ ~kb[p].file.raises
    /\ kb[p].file.chars < 50
C20_ShortTextChangesNothing ==
    \A p \in active :
        ShortTextAdd(p) =>
            /\ kb[p].pc = "done" /\ ~kb[p].ok
            /\ kb[p].doc_id = 0
            /\ kbcat = kb[p].prior.cat
            /\ kbvec = kb[p].prior.vec
            /\ kbfiles = kb[p].prior.files
C20_Witness ==
    /\ ShortTextAdd(1) /\ kb[1].pc = "done" /\ ~kb[1].ok
    /\ kb[1].file.chars = 49
    /\ Len(kbcat.docs) = 1 /\ kbvec # {} /\ kbfiles # {}

\* C21: delete_document with a document id that is not in the catalog
\* returns not found (success = false), each time it is called, and the
\* catalog, the vector index and the stored files are the same after the
\* call as before it.
DeleteOfUnlisted(p) == DeleteEnded(p) /\ ~kb[p].listed /\ kb[p].fault = "none"
C21_DeleteUnknownNoEffect ==
    \A p \in active :
        DeleteOfUnlisted(p) =>
            /\ ~kb[p].ok /\ ~kb[p].found
            /\ kbcat = kb[p].prior.cat
            /\ kbvec = kb[p].prior.vec
            /\ kbfiles = kb[p].prior.files

\* C22: constructing a KeyManager for a key-file path creates a non-empty
\* key file when none exists, and constructing further KeyManagers on the
\* same path leaves the key bytes unchanged, so all instances share one key.
C22_KeyFileOnConstruct ==
    /\ Len(km.inst) > 0 => km.file.state = "key"
    /\ \A i \in 1..Len(km.inst) :
          km.inst[i].pc = "ready" => km.inst[i].cipher = km.file.key

\* Keys in use by two instances differ.
InstancesShareOneKey ==
    \A i, j \in 1..Len(km.inst) :
        (km.inst[i].pc = "ready" /\ km.inst[j].pc = "ready")
            => km.inst[i].cipher = km.inst[j].cipher

\* C23: within one analyze_and_save call the steps run at most once each
\* and in the order fetch, context retrieval, scoring, Lead construction,
\* store add; the scorer is called only after a successful fetch, the store
\* add only after a scorer result without an error field; no step is
\* retried.
StepRank(step) ==
    CASE step = "fetch" -> 1 [] step = "context" -> 2 [] step = "score" -> 3
      [] step = "construct" -> 4 [] step = "add" -> 5
StepsDone == {an.steps[i] : i \in 1..Len(an.steps)}
C23_StepsOnceInOrder ==
    /\ \A i, j \in 1..Len(an.steps) :
          i < j => StepRank(an.steps[i]) < StepRank(an.steps[j])
    /\ "score" \in StepsDone =>
          ("fetch" \in StepsDone /\ scrape_url(an.url).success)
    /\ "add" \in StepsDone =>
          ({"score", "construct"} \subseteq StepsDone /\ "error" \notin an.ai.keys)
C23_Witness ==
    /\ an.pc = "done" /\ an.success
    /\ an.steps = <<"fetch", "context", "score", "construct", "add">>

\* C24: context retrieval is invoked only when a knowledge base is
\* configured, and neither an exception raised by it nor an empty result
\* fails the analysis: scoring then proceeds with the empty string as
\* context.
PastContext == an.pc \notin {"idle", "fetch", "context"} /\ an.failed_at # "fetch"
C24_ContextOptional ==
    /\ "context" \in StepsDone => kb_on
    /\ an.ctx_raised => "context" \in StepsDone
    /\ an.failed_at # "context"
    /\ PastContext =>
          /\ an.pc = "score" \/ "score" \in StepsDone
          /\ (~kb_on \/ an.ctx_raised \/ kbvec = {}) => an.ctx = ""
C24_Witness ==
    /\ an.pc = "done" /\ an.success /\ an.ctx_raised
    /\ kb_on /\ kbvec # {} /\ an.ctx = ""

\* C25: whenever context retrieval returns a non-empty context, that
\* context is part of the request the AI scorer builds for the model,
\* whichever scorer (OpenAI or Anthropic) is configured.
C25_ContextInPrompt ==
    (an.prompted /\ an.ctx # "") => an.prompt.context = an.ctx

\* The same for the Anthropic scorer alone.
AnthropicPromptHasContext ==
    (an.prompted /\ an.ctx # "" /\ ai_provider = "Anthropic")
        => an.prompt.context = an.ctx

\* C26: in analyze_bulk_urls over n processed URLs the delay is applied
\* exactly n-1 times, each time after the analysis of URL i has completed
\* and before the analysis of URL i+1 starts; no delay happens before the
\* first URL, after the last URL, or during a fetch or score call.
C26_DelayBetweenOnly ==
    /\ (bulk.pc = "returned" /\ Len(bulk.urls) > 0) => bulk.sleeps = Len(bulk.urls) - 1
    /\ (bulk.pc = "returned" /\ Len(bulk.urls) = 0) => bulk.sleeps = 0
    /\ bulk.pc = "wait" => bulk.sleeps = bulk.idx - 1
    /\ bulk.pc = "sleep" =>
          /\ an.pc = "idle" /\ pc[1] = "idle"
          /\ Len(bulk.results) = bulk.idx
          /\ bulk.idx < Len(bulk.urls)
          /\ bulk.sleeps = bulk.idx - 1
C26_Witness ==
    /\ bulk.pc = "returned" /\ Len(bulk.urls) >= 3
    /\ Len(bulk.results) = Len(bulk.urls)
    /\ bulk.sleeps = Len(bulk.urls) - 1

\* C27: a running bulk analysis can be told to stop: after a stop request
\* no further URL is started, while the analysis already in progress runs
\* to completion and its result is reported.
UrlStarted == bulk.pc = "loop" /\ bulk'.pc = "wait"
C27_StopBeforeNextUrl == [][bulk.stop => ~UrlStarted]_vars

\* C28: demo leads are never persisted: after any sequence of add_lead,
\* update_lead and delete_lead calls, with or without valid credentials,
\* every record in the data file is a lead that was passed to add_lead or
\* update_lead; the five built-in test leads (ids 9001 to 9005) are never
\* written to the file.
IsDemoLead(l) == l.url = "demo" /\ l.id \in 9001..9005
C28_DemoNeverPersisted ==
    \A i \in 1..Len(dataFile.leads) : ~IsDemoLead(dataFile.leads[i])

\* C29: a store operation on one lead leaves every other stored lead
\* untouched: after add_lead, update_lead or delete_lead each other lead's
\* stored fields equal what they were before the call.
OpDone(p) ==
    pc[p] = "ret" /\ loc[p].op \in {"add", "update", "delete"} /\ OpOk(loc[p])
C29_OtherLeadsUntouched ==
    \A p \in active :
        OpDone(p) =>
            \A i \in 1..Len(loc[p].stored) :
                (loc[p].op = "add" \/ loc[p].stored[i].id # loc[p].lead_id)
                    => \E j \in 1..Len(dataFile.leads) :
                          dataFile.leads[j] = loc[p].stored[i]

\* C30: load_all with caching enabled always returns the collection
\* currently held in the data file (what reading the file would give); in
\* particular, after an add_lead whose save failed, the next load_all does
\* not contain the lead that was not saved.
C30_CachedLoadIsFileContent ==
    \A p \in active :
        LoadReturned(p) => loc[p].loaded = LoadedFrom(dataFile, TRUE, test_mode)

====
